---- MODULE Spec2Model ----
(***************************************************************************)
(* A model of the Save Page Now 2 client (src/src/lib.rs) and of its       *)
(* reference command line driver (src/examples/cli.rs).                    *)
(*                                                                         *)
(* Strings whose bytes matter (credentials, header values, form values)    *)
(* are sequences of byte codes; strings that are only compared (field      *)
(* names, JSON string values, job ids) are TLA+ strings.  JSON values are  *)
(* records tagged by "t"; a JSON object is a function from the names of    *)
(* its fields to JSON values.                                              *)
(***************************************************************************)
EXTENDS Integers, Sequences, FiniteSets, TLC

VARIABLES
    json,       \* SpecDecode: the JSON object handed to the decoder
    decoded,    \* SpecDecode: NotYet, or the Result of decoding json
    params,     \* SpecEncode: the SPN2CaptureRequestParams to encode
    encoded,    \* SpecEncode: NotYet, or the form encoding of params
    client,     \* Spec: the SPN2Client the calls go through
    calls,      \* Spec: the calls made on client, each with its progress
    args,       \* SpecNew: the arguments of SPN2Client::new
    built,      \* SpecNew: NotYet, or what SPN2Client::new came to
    twins,      \* SpecLog: two clients, made with the same timeout
    stderr,     \* SpecLog: what the calls on each twin wrote to stderr
    ncalls,     \* SpecLog: the number of calls made on each twin
    pc,         \* SpecPoll: where the driver's main is
    job,        \* SpecPoll: capture_resp.job_id
    requests,   \* SpecPoll: the job ids of the status requests sent
    lastRead,   \* SpecPoll: NotYet, or the last result of get_capture_status
    pendingLeft \* SpecPoll: how often the service may still answer pending

decVars == <<json, decoded>>
encVars == <<params, encoded>>
cliVars == <<client, calls>>
newVars == <<args, built>>
logVars == <<twins, stderr, ncalls>>
pollVars == <<pc, job, requests, lastRead, pendingLeft>>
vars == <<json, decoded, params, encoded, client, calls, args, built,
          twins, stderr, ncalls, pc, job, requests, lastRead, pendingLeft>>

NotYet == [tag |-> "NotYet"]

(***************************************************************************)
(* Results and JSON values                                                 *)
(***************************************************************************)
Ok(v) == [tag |-> "Ok", value |-> v]
Err(e) == [tag |-> "Err", error |-> e]
IsOk(r) == r.tag = "Ok"
IsErr(r) == r.tag = "Err"

Some(x) == [some |-> x]
None == [none |-> TRUE]

JStr(s) == [t |-> "str", s |-> s]
JNum(n) == [t |-> "num", n |-> n]
JNull == [t |-> "null"]
JArr(a) == [t |-> "arr", a |-> a]
JObj(o) == [t |-> "obj", o |-> o]

\* The error serde_json reports; detail tells the tag errors from the others.
DecodeError(detail) == [kind |-> "Decode", detail |-> detail]

(***************************************************************************)
(* serde's deserializers of the field types used by the response types     *)
(***************************************************************************)
DeString(j) ==
    IF j.t = "str" THEN Ok(j.s) ELSE Err(DecodeError("content"))

DeOptString(j) ==
    IF j.t = "null" THEN Ok(None)
    ELSE IF j.t = "str" THEN Ok(Some(j.s))
    ELSE Err(DecodeError("content"))

DeVecString(j) ==
    IF j.t = "arr" /\ \A i \in 1..Len(j.a) : j.a[i].t = "str"
    THEN Ok([i \in 1..Len(j.a) |-> j.a[i].s])
    ELSE Err(DecodeError("content"))

DeF64(j) ==
    IF j.t = "num" THEN Ok(j.n) ELSE Err(DecodeError("content"))

DeUsize(j) ==
    IF j.t = "num" /\ j.n >= 0 THEN Ok(j.n) ELSE Err(DecodeError("content"))

\* The deserializer of a field's type.
DeField(type, j) ==
    CASE type = "String" -> DeString(j)
      [] type = "Vec<String>" -> DeVecString(j)
      [] type = "f64" -> DeF64(j)
      [] type = "usize" -> DeUsize(j)

\* A required field of a struct: missing is an error.
Required(o, f, type) ==
    IF f \in DOMAIN o THEN DeField(type, o[f]) ELSE Err(DecodeError("content"))

\* An Option field of a struct: missing is None.
Optional(o, f) ==
    IF f \in DOMAIN o THEN DeOptString(o[f]) ELSE Ok(None)

(***************************************************************************)
(* SPN2CaptureStatus: #[serde(tag = "status")], three struct variants      *)
(***************************************************************************)
DePending(o) ==
    LET resources == Required(o, "resources", "Vec<String>")
    IN  IF IsErr(resources) THEN resources
        ELSE Ok([variant |-> "Pending", resources |-> resources.value])

DeError(o) ==
    LET exception == Optional(o, "exception")
        status_ext == Required(o, "status_ext", "String")
        message == Required(o, "message", "String")
        resources == Required(o, "resources", "Vec<String>")
    IN  IF IsErr(exception) \/ IsErr(status_ext) \/ IsErr(message)
           \/ IsErr(resources)
        THEN Err(DecodeError("content"))
        ELSE Ok([variant |-> "Error", exception |-> exception.value,
                 status_ext |-> status_ext.value, message |-> message.value,
                 resources |-> resources.value])

DeSuccess(o) ==
    LET original_url == Required(o, "original_url", "String")
        screenshot == Optional(o, "screenshot")
        timestamp == Required(o, "timestamp", "String")
        duration_sec == Required(o, "duration_sec", "f64")
        resources == Required(o, "resources", "Vec<String>")
        outlinks == Required(o, "outlinks", "Vec<String>")
    IN  IF IsErr(original_url) \/ IsErr(screenshot) \/ IsErr(timestamp)
           \/ IsErr(duration_sec) \/ IsErr(resources) \/ IsErr(outlinks)
        THEN Err(DecodeError("content"))
        ELSE Ok([variant |-> "Success", original_url |-> original_url.value,
                 screenshot |-> screenshot.value, timestamp |-> timestamp.value,
                 duration_sec |-> duration_sec.value,
                 resources |-> resources.value, outlinks |-> outlinks.value])

\* A faulty VariantOfTag, for comparison: an unknown tag is taken as pending.
VariantOfTagDefaulting(tag) ==
    CASE tag = "error" -> "Error"
      [] tag = "success" -> "Success"
      [] OTHER -> "Pending"

\* The variant a tag names: the #[serde(rename = ...)] attributes.
VariantOfTag(tag) ==
    CASE tag = "pending" -> "Pending"
      [] tag = "error" -> "Error"
      [] tag = "success" -> "Success"
      [] OTHER -> "unknown"

\* serde_json::from_slice::<SPN2CaptureStatus> of a JSON object or scalar: the
\* tag is read first, then the other fields are decoded as the variant's
\* struct (fields the struct does not name are ignored).
DeCaptureStatus(j) ==
    IF j.t # "obj" THEN Err(DecodeError("content"))
    ELSE IF "status" \notin DOMAIN j.o THEN Err(DecodeError("tag_missing"))
    ELSE IF j.o["status"].t # "str" THEN Err(DecodeError("tag_invalid_type"))
    ELSE LET variant == VariantOfTag(j.o["status"].s)
             content == [f \in DOMAIN j.o \ {"status"} |-> j.o[f]]
         IN  CASE variant = "Pending" -> DePending(content)
               [] variant = "Error" -> DeError(content)
               [] variant = "Success" -> DeSuccess(content)
               [] OTHER -> Err(DecodeError("unknown_variant"))

(***************************************************************************)
(* SpecDecode: the capture status decoder applied to bounded JSON objects  *)
(***************************************************************************)
MaxItems == 1

Urls == {"https://example.com/"}

\* Lists of at most MaxItems resource urls.
UrlLists == UNION {[1..n -> Urls] : n \in 0..MaxItems}

StatusTags == {"pending", "error", "success", "failed", "Pending", ""}

\* What the "status" field may hold; Absent is no field at all.
Absent == [t |-> "absent"]
StatusValues == {JStr(s) : s \in StatusTags} \cup {JNum(0), JNull, Absent}

ContentFields == {"resources", "exception", "status_ext", "message",
                  "original_url", "screenshot", "timestamp", "duration_sec",
                  "outlinks"}
ExtraFields == {"job_id", "http_status", "counters"}

\* Values a field may be given in place of a well typed one.
OtherValues == {JStr("x"), JNum(6), JNull, JArr(<<>>), JArr(<<JNum(6)>>)}

\* The fields the service sends with each variant, well typed (lib.rs tests).
WireFields(shape, opt, rs) ==
    CASE shape = "Pending" -> [f \in {"resources"} |-> JArr([i \in DOMAIN rs |-> JStr(rs[i])])]
      [] shape = "Error" ->
            [f \in {"exception", "status_ext", "message", "resources"} \
                    (IF opt THEN {} ELSE {"exception"}) |->
                CASE f = "resources" -> JArr([i \in DOMAIN rs |-> JStr(rs[i])])
                  [] OTHER -> JStr(f)]
      [] shape = "Success" ->
            [f \in {"original_url", "screenshot", "timestamp", "duration_sec",
                    "resources", "outlinks"} \
                    (IF opt THEN {} ELSE {"screenshot"}) |->
                CASE f \in {"resources", "outlinks"} -> JArr([i \in DOMAIN rs |-> JStr(rs[i])])
                  [] f = "duration_sec" -> JNum(6)
                  [] OTHER -> JStr(f)]
      [] OTHER -> [f \in {} |-> JNull]

\* o with field f removed, or set to v.
Without(o, f) == [g \in DOMAIN o \ {f} |-> o[g]]
With(o, f, v) == [g \in DOMAIN o \cup {f} |-> IF g = f THEN v ELSE o[g]]

WithStatus(o, st) == IF st = Absent THEN o ELSE With(o, "status", st)
WithExtras(o, extras) ==
    IF extras THEN [g \in DOMAIN o \cup ExtraFields |->
                       IF g \in ExtraFields THEN JNum(200) ELSE o[g]]
    ELSE o

DecodeInputs ==
    {JObj(WithExtras(WithStatus(o, st), extras)) :
        o \in UNION {
            LET base == WireFields(shape, opt, rs)
            IN  {base} \cup {Without(base, f) : f \in DOMAIN base}
                       \cup {With(base, f, v) : f \in ContentFields, v \in OtherValues} :
            shape \in {"Pending", "Error", "Success", "Empty"},
            opt \in BOOLEAN, rs \in UrlLists},
        st \in StatusValues, extras \in BOOLEAN}

Unused == "unused"

InitDecode ==
    /\ json \in DecodeInputs
    /\ decoded = NotYet
    /\ params = Unused /\ encoded = Unused
    /\ client = Unused /\ calls = Unused
    /\ args = Unused /\ built = Unused
    /\ twins = Unused /\ stderr = Unused /\ ncalls = Unused
    /\ pc = Unused /\ job = Unused /\ requests = Unused
    /\ lastRead = Unused /\ pendingLeft = Unused

\* serde_json::from_str::<SPN2CaptureStatus>(json), as in the tests and in
\* resp.json::<SPN2CaptureStatus>().
Decode ==
    /\ decoded = NotYet
    /\ decoded' = DeCaptureStatus(json)
    /\ UNCHANGED <<json, encVars, cliVars, newVars, logVars, pollVars>>

NextDecode == Decode

SpecDecode == InitDecode /\ [][NextDecode]_vars

\* The fields of o that the struct of a variant requires are there and well
\* typed, and its Option fields are absent, null or strings.
IsStrings(j) == j.t = "arr" /\ \A i \in 1..Len(j.a) : j.a[i].t = "str"
Has(o, f, t) == f \in DOMAIN o /\ o[f].t = t
MayHave(o, f) == f \in DOMAIN o => o[f].t \in {"str", "null"}
HasStrings(o, f) == f \in DOMAIN o /\ IsStrings(o[f])
Carries(o, variant) ==
    CASE variant = "Pending" -> HasStrings(o, "resources")
      [] variant = "Error" ->
            /\ MayHave(o, "exception") /\ Has(o, "status_ext", "str")
            /\ Has(o, "message", "str") /\ HasStrings(o, "resources")
      [] variant = "Success" ->
            /\ Has(o, "original_url", "str") /\ MayHave(o, "screenshot")
            /\ Has(o, "timestamp", "str") /\ Has(o, "duration_sec", "num")
            /\ HasStrings(o, "resources") /\ HasStrings(o, "outlinks")
      [] OTHER -> FALSE

StatusOf(o) == IF "status" \in DOMAIN o THEN o["status"] ELSE Absent
KnownTag(st) == st.t = "str" /\ st.s \in {"pending", "error", "success"}
Named(st) ==
    CASE st.s = "pending" -> "Pending"
      [] st.s = "error" -> "Error"
      [] st.s = "success" -> "Success"

\* C1: decoding a capture status object selects the variant from the value of
\* its status field alone: a decoded value is always the variant its status
\* names; an object that carries the fields of the variant its status names
\* decodes to that variant, whatever other fields it has; and a status that is
\* missing, not a string, or none of pending, error, success fails to decode.
C1_DecodeDispatchesOnStatus ==
    decoded # NotYet =>
        LET st == StatusOf(json.o)
        IN  /\ IsOk(decoded) => KnownTag(st) /\ decoded.value.variant = Named(st)
            /\ ~KnownTag(st) => IsErr(decoded)
            /\ KnownTag(st) /\ Carries(json.o, Named(st)) =>
                    IsOk(decoded) /\ decoded.value.variant = Named(st)

\* An object with an unknown status and the fields of a Pending fails to
\* decode.
C1_Witness ==
    /\ decoded # NotYet /\ IsErr(decoded)
    /\ StatusOf(json.o) = JStr("failed")
    /\ Carries(json.o, "Pending")
    /\ "job_id" \in DOMAIN json.o

(***************************************************************************)
(* The form encoding of a capture request                                  *)
(***************************************************************************)
Duration(secs, nanos) == [secs |-> secs, nanos |-> nanos]

\* Duration::as_secs: the whole seconds.
AsSecs(d) == d.secs

\* The decimal digits of n, as serialize_u8 and serialize_u64 write them.
RECURSIVE Decimal(_)
Decimal(n) ==
    IF n < 10 THEN <<48 + n>> ELSE Decimal(n \div 10) \o <<48 + (n % 10)>>

HexDigit(d) == IF d < 10 THEN 48 + d ELSE 55 + d

\* application/x-www-form-urlencoded of one byte: *-._ digits and letters are
\* kept, a space is +, anything else is %XX.
ByteSerialize(b) ==
    IF \/ b \in {42, 45, 46, 95}
       \/ b \in 48..57 \/ b \in 65..90 \/ b \in 97..122
    THEN <<b>>
    ELSE IF b = 32 THEN <<43>>
    ELSE <<37, HexDigit(b \div 16), HexDigit(b % 16)>>

RECURSIVE FormEncode(_)
FormEncode(str) ==
    IF str = <<>> THEN <<>>
    ELSE ByteSerialize(Head(str)) \o FormEncode(Tail(str))

Pair(k, v) == [k |-> k, v |-> v]

\* A faulty SerializeBoolParam, for comparison: serde's own true and false.
SerializeBoolParamAsBool(b) == IF b THEN <<116, 114, 117, 101>> ELSE <<102, 97, 108, 115, 101>>
\* serialize_bool_param: 1 or 0, as a u8.
SerializeBoolParam(b) == Decimal(IF b THEN 1 ELSE 0)

\* serialize_duration_param of a Some: the seconds, as a u64.
SerializeDurationParam(d) == Decimal(AsSecs(d.some))

BoolField(o, f) == <<Pair(f, SerializeBoolParam(o[f]))>>

\* #[serde(skip_serializing_if = "Option::is_none")]
DurationField(o, f) ==
    IF o[f] = None THEN <<>> ELSE <<Pair(f, SerializeDurationParam(o[f]))>>
StringField(o, f) ==
    IF o[f] = None THEN <<>> ELSE <<Pair(f, FormEncode(o[f].some))>>

\* #[derive(Serialize)] of SPN2CaptureRequestOptParams: the fields in the
\* order of their declaration.
SerializeOptParams(o) ==
    BoolField(o, "capture_all") \o BoolField(o, "capture_outlinks")
    \o BoolField(o, "capture_screenshot") \o BoolField(o, "delay_wb_availability")
    \o BoolField(o, "force_get") \o BoolField(o, "skip_first_archive")
    \o BoolField(o, "outlinks_availability") \o BoolField(o, "email_result")
    \o DurationField(o, "if_not_archived_within")
    \o DurationField(o, "js_behavior_timeout")
    \o StringField(o, "capture_cookie") \o StringField(o, "use_user_agent")
    \o StringField(o, "target_username") \o StringField(o, "target_password")

\* SPN2CaptureRequestParams: url, then the flattened optional parameters.
SerializeParams(p) ==
    <<Pair("url", FormEncode(p.url))>> \o SerializeOptParams(p.opt_params)

\* SPN2CaptureRequestOptParams::default()
DefaultOptParams ==
    [capture_all |-> FALSE, capture_outlinks |-> FALSE,
     capture_screenshot |-> FALSE, delay_wb_availability |-> FALSE,
     force_get |-> FALSE, skip_first_archive |-> FALSE,
     outlinks_availability |-> FALSE, email_result |-> FALSE,
     if_not_archived_within |-> None, js_behavior_timeout |-> None,
     capture_cookie |-> None, use_user_agent |-> None,
     target_username |-> None, target_password |-> None]

(***************************************************************************)
(* SpecEncode: the encoding applied to bounded request parameters          *)
(***************************************************************************)
StrExampleCom == <<101, 120, 97, 109, 112, 108, 101, 46, 99, 111, 109>>
StrDummy == <<68, 117, 109, 109, 121>>
StrSpaced == <<97, 32, 38, 61>>

DurationInputs == {None, Some(Duration(1, 0)), Some(Duration(12, 500000000))}
LongStringInputs == {None, Some(StrDummy), Some(StrSpaced)}
ShortStringInputs == {None, Some(StrSpaced)}

OptParamsInputs ==
    [capture_all : BOOLEAN, capture_outlinks : BOOLEAN,
     capture_screenshot : BOOLEAN, delay_wb_availability : BOOLEAN,
     force_get : BOOLEAN, skip_first_archive : BOOLEAN,
     outlinks_availability : BOOLEAN, email_result : BOOLEAN,
     if_not_archived_within : DurationInputs,
     js_behavior_timeout : DurationInputs,
     capture_cookie : LongStringInputs, use_user_agent : LongStringInputs,
     target_username : ShortStringInputs, target_password : ShortStringInputs]

InitEncode ==
    /\ params \in [url : {StrExampleCom}, opt_params : OptParamsInputs]
    /\ encoded = NotYet
    /\ json = Unused /\ decoded = Unused
    /\ client = Unused /\ calls = Unused
    /\ args = Unused /\ built = Unused
    /\ twins = Unused /\ stderr = Unused /\ ncalls = Unused
    /\ pc = Unused /\ job = Unused /\ requests = Unused
    /\ lastRead = Unused /\ pendingLeft = Unused

\* serde_urlencoded::to_string(params), as in the test and in
\* RequestBuilder::form(&params).
Encode ==
    /\ encoded = NotYet
    /\ encoded' = SerializeParams(params)
    /\ UNCHANGED <<params, decVars, cliVars, newVars, logVars, pollVars>>

NextEncode == Encode

SpecEncode == InitEncode /\ [][NextEncode]_vars

BoolNames == <<"capture_all", "capture_outlinks", "capture_screenshot",
               "delay_wb_availability", "force_get", "skip_first_archive",
               "outlinks_availability", "email_result">>
OptionNames == <<"if_not_archived_within", "js_behavior_timeout",
                 "capture_cookie", "use_user_agent", "target_username",
                 "target_password">>

Keys(enc) == [i \in DOMAIN enc |-> enc[i].k]

\* C3: the form encoding is url, then the eight booleans in the order of
\* their declaration, each 1 or 0, then the optional fields in the order of
\* their declaration, each there exactly when it is set, the durations as
\* their whole seconds; the default options encode as url and eight 0s.
C3_FormEncoding ==
    encoded # NotYet =>
        LET o == params.opt_params
            IsSet(f) == o[f] # None
        IN  /\ Keys(encoded) = <<"url">> \o BoolNames \o SelectSeq(OptionNames, IsSet)
            /\ \A i \in 1..8 :
                    encoded[i + 1].v = IF o[BoolNames[i]] THEN <<49>> ELSE <<48>>
            /\ \A i \in 10..Len(encoded) :
                    encoded[i].k \in {"if_not_archived_within", "js_behavior_timeout"} =>
                        encoded[i].v = Decimal(o[encoded[i].k].some.secs)
            /\ o = DefaultOptParams =>
                    /\ Len(encoded) = 9
                    /\ \A i \in 2..9 : encoded[i].v = <<48>>

\* The parameters of the test serialize_request_params, encoded as the test
\* expects.
C3_Witness ==
    /\ encoded # NotYet
    /\ params.opt_params =
            [DefaultOptParams EXCEPT
                !.capture_all = TRUE, !.capture_outlinks = TRUE,
                !.capture_screenshot = TRUE, !.delay_wb_availability = TRUE,
                !.force_get = TRUE, !.skip_first_archive = TRUE,
                !.outlinks_availability = TRUE,
                !.if_not_archived_within = Some(Duration(1, 0)),
                !.use_user_agent = Some(StrDummy)]
    /\ encoded = <<Pair("url", StrExampleCom), Pair("capture_all", <<49>>),
                   Pair("capture_outlinks", <<49>>),
                   Pair("capture_screenshot", <<49>>),
                   Pair("delay_wb_availability", <<49>>),
                   Pair("force_get", <<49>>), Pair("skip_first_archive", <<49>>),
                   Pair("outlinks_availability", <<49>>),
                   Pair("email_result", <<48>>),
                   Pair("if_not_archived_within", <<49>>),
                   Pair("use_user_agent", StrDummy)>>

(***************************************************************************)
(* The other response types, and what each method makes of a response      *)
(***************************************************************************)
\* A response body that is not JSON.
NotJson == [t |-> "garbage"]

\* SPN2CaptureResponse { url, job_id }
DeCaptureResponse(j) ==
    IF j.t # "obj" THEN Err(DecodeError("content"))
    ELSE LET url == Required(j.o, "url", "String")
             job_id == Required(j.o, "job_id", "String")
         IN  IF IsErr(url) \/ IsErr(job_id) THEN Err(DecodeError("content"))
             ELSE Ok([url |-> url.value, job_id |-> job_id.value])

\* SPN2UserStatus { available, processing }
DeUserStatus(j) ==
    IF j.t # "obj" THEN Err(DecodeError("content"))
    ELSE LET available == Required(j.o, "available", "usize")
             processing == Required(j.o, "processing", "usize")
         IN  IF IsErr(available) \/ IsErr(processing)
             THEN Err(DecodeError("content"))
             ELSE Ok([available |-> available.value,
                      processing |-> processing.value])

\* serde_json::Value takes any JSON.
DeValue(j) == Ok(j)

SystemOk == [variant |-> "Ok"]
Issues(description) == [variant |-> "Issues", description |-> description]
Critical == [variant |-> "Critical"]

\* The errors a call returns, boxed as Error: a reqwest::Error (is_timeout()
\* tells an expired timeout), a message, or a SystemTimeError.
ReqwestError(kind, timedOut) ==
    [type |-> "reqwest::Error", kind |-> kind, is_timeout |-> timedOut]
SystemTimeError == [type |-> "SystemTimeError"]

StatusOK == 200
StatusBadGateway == 502

\* StatusCode's Display: the code and its canonical reason.
CanonicalReason(code) ==
    CASE code = 200 -> "OK"
      [] code = 204 -> "No Content"
      [] code = 404 -> "Not Found"
      [] code = 502 -> "Bad Gateway"
      [] OTHER -> "<unknown status code>"
DisplayStatus(code) == [code |-> code, reason |-> CanonicalReason(code)]

\* format!("unexpected response status: {s}")
UnexpectedStatus(s) ==
    [type |-> "String", text |-> "unexpected response status: ",
     status |-> DisplayStatus(s)]

\* format!("invalid response: {json}")
InvalidResponse(j) ==
    [type |-> "String", text |-> "invalid response: ", json |-> j]

\* A faulty FromJson, for comparison: a status other than ok is Critical.
FromJsonSevere(j) ==
    IF j.t = "obj" /\ "status" \in DOMAIN j.o /\ j.o["status"].t = "str"
    THEN IF j.o["status"].s = "ok" THEN Ok(SystemOk) ELSE Ok(Critical)
    ELSE Err(InvalidResponse(j))

\* SPN2SystemStatus::from_json
FromJson(j) ==
    IF j.t = "obj" /\ "status" \in DOMAIN j.o /\ j.o["status"].t = "str"
    THEN IF j.o["status"].s = "ok" THEN Ok(SystemOk)
         ELSE Ok(Issues(j.o["status"].s))
    ELSE Err(InvalidResponse(j))

\* resp.json::<T>(): the body parsed as JSON and decoded as T; either failure
\* is a reqwest::Error of kind Decode.
RespJson(type, body) ==
    IF body = NotJson THEN Err(ReqwestError("Decode", FALSE))
    ELSE LET r == CASE type = "SPN2CaptureResponse" -> DeCaptureResponse(body)
                    [] type = "SPN2CaptureStatus" -> DeCaptureStatus(body)
                    [] type = "SPN2UserStatus" -> DeUserStatus(body)
                    [] type = "serde_json::Value" -> DeValue(body)
         IN  IF IsErr(r) THEN Err(ReqwestError("Decode", FALSE)) ELSE r

Methods == {"request_capture", "get_capture_status", "get_user_status",
            "get_system_status"}

\* The OK arm of each method's match on resp.status(), given the body read.
OnBody(method, body) ==
    CASE method = "request_capture" -> RespJson("SPN2CaptureResponse", body)
      [] method = "get_capture_status" -> RespJson("SPN2CaptureStatus", body)
      [] method = "get_user_status" -> RespJson("SPN2UserStatus", body)
      [] method = "get_system_status" ->
            LET v == RespJson("serde_json::Value", body)
            IN  IF IsErr(v) THEN v ELSE FromJson(v.value)

\* A faulty IsOkArm, for comparison: any 2xx status counts as success.
IsOkArmAny2xx(s) == s \in 200..299
\* The arm of the match a status takes: StatusCode::OK reads the body.
IsOkArm(s) == s = StatusOK

\* The other arms: what a status that is not OK gives, the body unread.
OnOtherStatus(method, s) ==
    IF method = "get_system_status" /\ s = StatusBadGateway THEN Ok(Critical)
    ELSE Err(UnexpectedStatus(s))

(***************************************************************************)
(* SPN2Client::new                                                         *)
(***************************************************************************)
\* "LOW ", ":" and "application/json" as bytes.
StrLow == <<76, 79, 87, 32>>
StrColon == <<58>>
StrApplicationJson == <<97, 112, 112, 108, 105, 99, 97, 116, 105, 111, 110,
                        47, 106, 115, 111, 110>>

Panic == [tag |-> "Panic"]
InvalidHeaderValue == [type |-> "InvalidHeaderValue"]

\* The bytes a header value may hold: a tab, or anything from a space up but
\* DEL (the inputs here are ASCII).
IsValidHeaderByte(b) == b = 9 \/ (b >= 32 /\ b # 127)

\* A faulty FromStr, for comparison: the error is unwrapped, and panics.
FromStrUnwrap(str) ==
    IF \A i \in 1..Len(str) : IsValidHeaderByte(str[i])
    THEN Ok([bytes |-> str, is_sensitive |-> FALSE])
    ELSE Panic

\* HeaderValue::from_str
FromStr(str) ==
    IF \A i \in 1..Len(str) : IsValidHeaderByte(str[i])
    THEN Ok([bytes |-> str, is_sensitive |-> FALSE])
    ELSE Err(InvalidHeaderValue)

\* HeaderValue::from_static: panics on an invalid string.
FromStatic(str) ==
    IF \A i \in 1..Len(str) : IsValidHeaderByte(str[i])
    THEN [bytes |-> str, is_sensitive |-> FALSE]
    ELSE Panic

\* A faulty SetSensitive, for comparison: the value is left as it is.
SetSensitiveIgnored(value, on) == value

\* HeaderValue::set_sensitive
SetSensitive(value, on) == [value EXCEPT !.is_sensitive = on]

\* format!("LOW {api_access_key}:{api_secret}")
AuthString(api_access_key, api_secret) ==
    StrLow \o api_access_key \o StrColon \o api_secret

\* SPN2Client::new.  transportOk: whether ClientBuilder::build() succeeds.
New(api_access_key, api_secret, timeout, transportOk) ==
    LET auth_value == FromStr(AuthString(api_access_key, api_secret))
        accept == FromStatic(StrApplicationJson)
    IN  IF auth_value = Panic \/ accept = Panic THEN Panic
        ELSE IF IsErr(auth_value) THEN auth_value
        ELSE IF ~transportOk THEN Err(ReqwestError("Builder", FALSE))
        ELSE Ok([http_client |->
                    [default_headers |->
                        [Authorization |-> SetSensitive(auth_value.value, TRUE),
                         Accept |-> accept]],
                 timeout |-> timeout])

(***************************************************************************)
(* SpecNew: SPN2Client::new applied to bounded credentials                 *)
(***************************************************************************)
MaxCredLen == 1

Timeouts == {2, 5}

\* a, colon, tab; newline and DEL are not valid in a header value.
CredBytes == {97, 58, 9, 10, 127}
Creds == UNION {[1..n -> CredBytes] : n \in 0..MaxCredLen}

InitNew ==
    /\ args \in [api_access_key : Creds, api_secret : Creds,
                  timeout : Timeouts, transportOk : BOOLEAN]
    /\ built = NotYet
    /\ json = Unused /\ decoded = Unused
    /\ params = Unused /\ encoded = Unused
    /\ client = Unused /\ calls = Unused
    /\ twins = Unused /\ stderr = Unused /\ ncalls = Unused
    /\ pc = Unused /\ job = Unused /\ requests = Unused
    /\ lastRead = Unused /\ pendingLeft = Unused

Construct ==
    /\ built = NotYet
    /\ built' = New(args.api_access_key, args.api_secret, args.timeout,
                    args.transportOk)
    /\ UNCHANGED <<args, decVars, encVars, cliVars, logVars, pollVars>>

NextNew == Construct

SpecNew == InitNew /\ [][NextNew]_vars

IsValidCred(str) == \A i \in 1..Len(str) : str[i] \notin {10, 127}

\* C8: new with a key or a secret holding a byte that is invalid in a header
\* value returns an error, and neither panics nor yields a client; with
\* valid credentials (and a transport that builds) it yields a client whose
\* Authorization header is LOW <key>:<secret> and whose timeout is the one
\* given.
C8_NewChecksCredentials ==
    built # NotYet =>
        LET valid == IsValidCred(args.api_access_key) /\ IsValidCred(args.api_secret)
        IN  /\ built # Panic
            /\ ~valid => IsErr(built) /\ built.error = InvalidHeaderValue
            /\ valid /\ args.transportOk => IsOk(built)
            /\ IsOk(built) =>
                /\ valid
                /\ built.value.http_client.default_headers.Authorization.bytes =
                        <<76, 79, 87, 32>> \o args.api_access_key \o <<58>>
                            \o args.api_secret
                /\ built.value.timeout = args.timeout

\* A secret with a newline is refused.
C8_Witness ==
    /\ built # NotYet /\ IsErr(built)
    /\ args.api_access_key = <<97>> /\ args.api_secret = <<10>>
    /\ args.transportOk

(***************************************************************************)
(* Spec: calls through one client.  A call is a future: made (it borrows   *)
(* the client), polled (it builds its request, with the client's timeout,  *)
(* and sends it), then it waits for the response, then, on OK, for the     *)
(* body.  set_timeout takes &mut self: it runs only while no future        *)
(* borrows the client.                                                     *)
(***************************************************************************)
MaxCalls == 2

CallIds == 1..MaxCalls
Statuses == {200, 204, 404, 502}

\* The bodies the service may answer a method with.
Bodies(method) ==
    CASE method = "request_capture" ->
            {NotJson,
             JObj([f \in {"url", "job_id"} |-> JStr(f)]),
             JObj([f \in {"url"} |-> JStr(f)])}
      [] method = "get_capture_status" ->
            {NotJson,
             JObj(With(WireFields("Pending", TRUE, <<>>), "status", JStr("pending"))),
             JObj(With(WireFields("Success", TRUE, <<>>), "status", JStr("success"))),
             JObj(With(WireFields("Pending", TRUE, <<>>), "status", JStr("failed")))}
      [] method = "get_user_status" ->
            {NotJson,
             JObj([f \in {"available", "processing"} |-> JNum(1)]),
             JObj([f \in {"available", "processing"} |-> JNum(-1)])}
      [] method = "get_system_status" ->
            {NotJson, JStr("ok"),
             JObj([f \in {"job_id"} |-> JStr("ok")]),
             JObj([f \in {"status"} |-> JNum(0)]),
             JObj([f \in {"status"} |-> JStr("ok")]),
             JObj([f \in {"status"} |-> JStr("overloaded")])}

\* Spec draws its responses from fewer: OK with a body that decodes or with
\* one that is not JSON, and Bad Gateway.
FewStatuses == {200, 502}
GoodBody(method) ==
    CASE method = "request_capture" -> JObj([f \in {"url", "job_id"} |-> JStr(f)])
      [] method = "get_capture_status" ->
            JObj(With(WireFields("Pending", TRUE, <<>>), "status", JStr("pending")))
      [] method = "get_user_status" ->
            JObj([f \in {"available", "processing"} |-> JNum(1)])
      [] method = "get_system_status" -> JObj([f \in {"status"} |-> JStr("ok")])
FewBodies(method, status) ==
    IF status = 200 THEN {NotJson, GoodBody(method)} ELSE {NotJson}

StrKey == <<97>>
StrSecret == <<115>>

Idle == [stage |-> "idle"]
InFlight(c) == calls[c].stage \in {"made", "sent", "body"}
Done(c) == calls[c].stage = "done"

\* The client after SPN2Client::new(.., timeout).
Init ==
    /\ \E t \in Timeouts : client = New(StrKey, StrSecret, t, TRUE).value
    /\ calls = [c \in CallIds |-> Idle]
    /\ json = Unused /\ decoded = Unused
    /\ params = Unused /\ encoded = Unused
    /\ args = Unused /\ built = Unused
    /\ twins = Unused /\ stderr = Unused /\ ncalls = Unused
    /\ pc = Unused /\ job = Unused /\ requests = Unused
    /\ lastRead = Unused /\ pendingLeft = Unused

\* A faulty SetTimeout, for comparison: a setter on &self, which may run
\* while futures borrow the client.
SetTimeoutShared(timeout) ==
    /\ client' = [client EXCEPT !.timeout = timeout]
    /\ UNCHANGED <<calls, decVars, encVars, newVars, logVars, pollVars>>

\* set_timeout(&mut self, timeout)
SetTimeout(timeout) ==
    /\ \A c \in CallIds : ~InFlight(c)
    /\ client' = [client EXCEPT !.timeout = timeout]
    /\ UNCHANGED <<calls, decVars, encVars, newVars, logVars, pollVars>>

\* A method is called: the future is made, and nothing has run yet.
\* started is the client's timeout at this moment, kept for the claims.
Call(method) ==
    /\ \E c \in CallIds :
        /\ calls[c] = Idle
        /\ \A d \in 1..(c - 1) : calls[d] # Idle
        /\ calls' = [calls EXCEPT ![c] =
                [stage |-> "made", method |-> method,
                 started |-> client.timeout, timeout |-> None, sends |-> 0,
                 resp |-> None, ended |-> "no", result |-> NotYet]]
    /\ UNCHANGED <<client, decVars, encVars, newVars, logVars, pollVars>>

\* The end of a call: its result, and how it came to it.
Finish(c, how, result) ==
    [calls EXCEPT ![c].stage = "done", ![c].ended = how, ![c].result = result]

\* The first poll, up to the first await: the request is built with
\* .timeout(self.timeout) and sent.  get_user_status reads the clock first
\* and returns its error when the clock is before the epoch.  (What
\* request_capture writes to stderr on the way is followed in SpecLog.)
Poll(c, clockOk) ==
    /\ calls[c].stage = "made"
    /\ IF calls[c].method = "get_user_status" /\ ~clockOk
       THEN calls' = Finish(c, "clock", Err(SystemTimeError))
       ELSE calls' = [calls EXCEPT ![c].stage = "sent",
                                   ![c].timeout = client.timeout,
                                   ![c].sends = @ + 1]
    /\ UNCHANGED <<client, decVars, encVars, newVars, logVars, pollVars>>

\* A faulty SendError, for comparison: the request is built and sent again.
SendErrorRetry(c, timedOut) ==
    /\ calls[c].stage = "sent"
    /\ calls' = [calls EXCEPT ![c].stage = "made"]
    /\ UNCHANGED <<client, decVars, encVars, newVars, logVars, pollVars>>

\* send().await? fails: the timeout expired, or the transport failed.
SendError(c, timedOut) ==
    /\ calls[c].stage = "sent"
    /\ calls' = Finish(c, IF timedOut THEN "timeout" ELSE "transport",
                       Err(ReqwestError("Request", timedOut)))
    /\ UNCHANGED <<client, decVars, encVars, newVars, logVars, pollVars>>

\* send().await? gives a response: the match on resp.status().  The OK arm
\* goes on to read the body; the other arms return at once.
Response(c, status, body) ==
    /\ calls[c].stage = "sent"
    /\ LET got == [calls EXCEPT ![c].resp = [status |-> status, body |-> body]]
       IN  IF IsOkArm(status)
           THEN calls' = [got EXCEPT ![c].stage = "body"]
           ELSE calls' = [got EXCEPT
                    ![c].stage = "done", ![c].ended = "status",
                    ![c].result = OnOtherStatus(calls[c].method, status)]
    /\ UNCHANGED <<client, decVars, encVars, newVars, logVars, pollVars>>

\* resp.json().await: the body arrives and is decoded.
BodyRead(c) ==
    /\ calls[c].stage = "body"
    /\ calls' = Finish(c, "body", OnBody(calls[c].method, calls[c].resp.body))
    /\ UNCHANGED <<client, decVars, encVars, newVars, logVars, pollVars>>

\* A faulty BodyTimeout, for comparison: the timeout is reported as a
\* decode error.
BodyTimeoutAsDecode(c) ==
    /\ calls[c].stage = "body"
    /\ calls' = Finish(c, "timeout", Err(ReqwestError("Decode", FALSE)))
    /\ UNCHANGED <<client, decVars, encVars, newVars, logVars, pollVars>>

\* resp.json().await: the timeout expires while the body is read.
BodyTimeout(c) ==
    /\ calls[c].stage = "body"
    /\ calls' = Finish(c, "timeout", Err(ReqwestError("Body", TRUE)))
    /\ UNCHANGED <<client, decVars, encVars, newVars, logVars, pollVars>>

Next ==
    \/ \E t \in Timeouts : SetTimeout(t)
    \/ \E m \in Methods : Call(m)
    \/ \E c \in CallIds, clockOk \in BOOLEAN : Poll(c, clockOk)
    \/ \E c \in CallIds, timedOut \in BOOLEAN : SendError(c, timedOut)
    \/ \E c \in CallIds, s \in FewStatuses :
            /\ calls[c].stage = "sent"
            /\ \E b \in FewBodies(calls[c].method, s) : Response(c, s, b)
    \/ \E c \in CallIds : BodyRead(c)
    \/ \E c \in CallIds : BodyTimeout(c)

Spec == Init /\ [][Next]_vars

(***************************************************************************)
(* SpecMap: one call, answered with every status and body                  *)
(***************************************************************************)
NextMap ==
    \/ \E m \in Methods : calls[1] = Idle /\ Call(m)
    \/ \E c \in CallIds, clockOk \in BOOLEAN : Poll(c, clockOk)
    \/ \E c \in CallIds, timedOut \in BOOLEAN : SendError(c, timedOut)
    \/ \E c \in CallIds, s \in Statuses :
            /\ calls[c].stage = "sent"
            /\ \E b \in Bodies(calls[c].method) : Response(c, s, b)
    \/ \E c \in CallIds : BodyRead(c)
    \/ \E c \in CallIds : BodyTimeout(c)

SpecMap == Init /\ [][NextMap]_vars

\* A response arrived for call c, which has returned.
Answered(c) == Done(c) /\ calls[c].resp # None

StringStatus(body) ==
    body # NotJson /\ body.t = "obj" /\ "status" \in DOMAIN body.o
        /\ body.o["status"].t = "str"

\* C2: get_system_status gives Ok for OK with a body whose status is the
\* string ok, Issues with the string as its description for OK with any
\* other string status, an error for OK with no string status, Critical for
\* Bad Gateway with the body unread, and an error for any other status.
C2_SystemStatusMapping ==
    \A c \in CallIds :
        Answered(c) /\ calls[c].method = "get_system_status" =>
            LET status == calls[c].resp.status
                body == calls[c].resp.body
                result == calls[c].result
            IN  /\ status = 200 /\ calls[c].ended = "body" =>
                    IF StringStatus(body)
                    THEN IF body.o["status"].s = "ok"
                         THEN result = Ok([variant |-> "Ok"])
                         ELSE result = Ok([variant |-> "Issues",
                                           description |-> body.o["status"].s])
                    ELSE IsErr(result)
                /\ status = 502 =>
                        result = Ok([variant |-> "Critical"])
                            /\ calls[c].ended = "status"
                /\ status \notin {200, 502} => IsErr(result)

\* OK with the status "overloaded" is Issues("overloaded").
C2_Witness ==
    \E c \in CallIds :
        /\ Answered(c) /\ calls[c].method = "get_system_status"
        /\ calls[c].resp.status = 200
        /\ StringStatus(calls[c].resp.body)
        /\ calls[c].result = Ok([variant |-> "Issues", description |-> "overloaded"])

\* The body is JSON of the shape the method's response type asks for.
Decodes(method, body) ==
    /\ body # NotJson
    /\ body.t = "obj"
    /\ CASE method = "request_capture" ->
                Has(body.o, "url", "str") /\ Has(body.o, "job_id", "str")
          [] method = "get_capture_status" ->
                KnownTag(StatusOf(body.o))
                    /\ Carries(body.o, Named(StatusOf(body.o)))
          [] method = "get_user_status" ->
                /\ Has(body.o, "available", "num") /\ body.o["available"].n >= 0
                /\ Has(body.o, "processing", "num") /\ body.o["processing"].n >= 0
          [] OTHER -> FALSE

ThreeMethods == {"request_capture", "get_capture_status", "get_user_status"}

\* The error holds the body, in some field.
CarriesBody(e, body) ==
    \E f \in DOMAIN e \ {"type", "text"} : e[f] = body

SucceedsOnlyOnOk(c) ==
    IsOk(calls[c].result) =>
        /\ calls[c].resp # None
        /\ calls[c].resp.status = 200
        /\ Decodes(calls[c].method, calls[c].resp.body)

C5_OneRequestPerCall ==
    \A c \in CallIds :
        calls[c] # Idle =>
            /\ calls[c].sends <= 1
            /\ calls[c].stage \in {"sent", "body"} => calls[c].sends = 1
            /\ Done(c) /\ calls[c].ended \in {"timeout", "transport", "clock"} =>
                    IsErr(calls[c].result)
            /\ Done(c) /\ calls[c].ended = "body"
                    /\ calls[c].resp.body = NotJson => IsErr(calls[c].result)

\* A call whose request failed in the transport has returned, one request
\* sent.
C5_Witness ==
    \E c \in CallIds :
        Done(c) /\ calls[c].ended = "transport" /\ calls[c].sends = 1

\* C6: the timeout of a call's request is the client's timeout when the
\* call was made, and no step, set_timeout among them, changes the timeout
\* of a request in flight; calls made after set_timeout use the new value.
C6_TimeoutFixedAtStart ==
    /\ [](\A c \in CallIds :
            calls[c] # Idle /\ calls[c].sends = 1 =>
                calls[c].timeout = calls[c].started)
    /\ [][\A c \in CallIds :
            calls[c].stage \in {"sent", "body"} =>
                calls'[c].timeout = calls[c].timeout]_vars

\* A call that returned used the timeout of 2; set_timeout(5) ran; a call
\* now in flight uses 5.
C6_Witness ==
    \E c, d \in CallIds :
        /\ Done(c) /\ calls[c].sends = 1 /\ calls[c].timeout = 2
        /\ calls[d].stage = "sent" /\ calls[d].timeout = 5
        /\ client.timeout = 5

IsTimeoutError(e) == e.type = "reqwest::Error" /\ e.is_timeout

\* C7: a call whose timeout expires, before the response or while the body
\* is read, returns an error, which says it is a timeout; the error of a
\* body that does not decode and the error of an unexpected status do not,
\* and differ from it.
C7_TimeoutIsDistinct ==
    \A c \in CallIds :
        Done(c) =>
            /\ calls[c].ended = "timeout" =>
                    IsErr(calls[c].result) /\ IsTimeoutError(calls[c].result.error)
            /\ calls[c].ended \in {"body", "status"} /\ IsErr(calls[c].result) =>
                /\ ~IsTimeoutError(calls[c].result.error)
                /\ \A d \in CallIds :
                        Done(d) /\ calls[d].ended = "timeout" =>
                            calls[d].result.error # calls[c].result.error

\* One call timed out while its body was read; another read a body that is
\* not JSON.
C7_Witness ==
    \E c, d \in CallIds :
        /\ Done(c) /\ calls[c].ended = "timeout" /\ calls[c].resp # None
        /\ Done(d) /\ calls[d].ended = "body" /\ IsErr(calls[d].result)

(***************************************************************************)
(* SpecLog: what the calls write to stderr, on two clients that differ     *)
(* only in their credentials                                               *)
(***************************************************************************)
MaxLog == 2

StrSensitive == <<83, 101, 110, 115, 105, 116, 105, 118, 101>>
StrFormContentType == <<97, 112, 112, 108, 105, 99, 97, 116, 105, 111, 110, 47,
                        120, 45, 119, 119, 119, 45, 102, 111, 114, 109, 45,
                        117, 114, 108, 101, 110, 99, 111, 100, 101, 100>>

\* HeaderValue's Debug: a sensitive value is written as Sensitive.
DebugHeaderValue(value) ==
    IF value.is_sensitive THEN StrSensitive ELSE value.bytes

DebugHeaders(headers) ==
    [h \in DOMAIN headers |-> DebugHeaderValue(headers[h])]

\* The {req:?} of eprintln!: RequestBuilder's Debug writes the method, the
\* url and the headers of the request, which .form() gave a content type.
\* Whether the client's default headers are among them is the transport's
\* choice (withDefaults); the form body is not written.
DebugRequestBuilder(cl, withDefaults) ==
    [method |-> "POST", url |-> "https://web.archive.org/save",
     headers |-> [h \in {"content-type"} |-> StrFormContentType],
     defaults |-> IF withDefaults
                  THEN DebugHeaders(cl.http_client.default_headers)
                  ELSE <<>>]

\* What a call of a method on cl writes to stderr.
Writes(cl, method, withDefaults) ==
    IF method = "request_capture"
    THEN <<DebugRequestBuilder(cl, withDefaults)>>
    ELSE <<>>

TwinKeys == {<<97>>, <<98>>}
TwinSecrets == {<<115>>, <<9>>}

InitLog ==
    /\ \E k1 \in TwinKeys, k2 \in TwinKeys, s1 \in TwinSecrets,
          s2 \in TwinSecrets, t \in Timeouts :
            twins = <<New(k1, s1, t, TRUE).value, New(k2, s2, t, TRUE).value>>
    /\ stderr = <<(<<>>), (<<>>)>>
    /\ ncalls = 0
    /\ json = Unused /\ decoded = Unused
    /\ params = Unused /\ encoded = Unused
    /\ client = Unused /\ calls = Unused
    /\ args = Unused /\ built = Unused
    /\ pc = Unused /\ job = Unused /\ requests = Unused
    /\ lastRead = Unused /\ pendingLeft = Unused

\* The same call is made on both twins.
CallBoth(method, withDefaults) ==
    /\ ncalls < MaxLog
    /\ ncalls' = ncalls + 1
    /\ stderr' = [i \in 1..2 |->
                    stderr[i] \o Writes(twins[i], method, withDefaults)]
    /\ UNCHANGED <<twins, decVars, encVars, cliVars, newVars, pollVars>>

NextLog == \E m \in Methods, withDefaults \in BOOLEAN : CallBoth(m, withDefaults)

SpecLog == InitLog /\ [][NextLog]_vars

\* C9: the credentials do not show in what the library writes: two clients
\* that differ only in their credentials write the same, whatever the calls.
C9_CredentialsNotLogged == stderr[1] = stderr[2]

\* Two clients with different keys and secrets have each written a request
\* with the default headers in it.
C9_Witness ==
    /\ twins[1].http_client.default_headers.Authorization.bytes
            = <<76, 79, 87, 32, 97, 58, 115>>
    /\ twins[2].http_client.default_headers.Authorization.bytes
            = <<76, 79, 87, 32, 98, 58, 9>>
    /\ Len(stderr[1]) = 2
    /\ stderr[1][2].defaults # <<>>

(***************************************************************************)
(* SpecPoll: the polling loop of the driver's main                         *)
(***************************************************************************)
MaxPending == 2

Jobs == {"job-1", "job-2"}

\* What the service may do with a status request.
Outcomes ==
    [kind : {"send_error"}, timedOut : BOOLEAN]
    \cup [kind : {"response"}, status : {200, 404, 502},
          body : {NotJson,
                  JObj(With(WireFields("Pending", TRUE, <<>>), "status", JStr("pending"))),
                  JObj(With(WireFields("Error", TRUE, <<>>), "status", JStr("error"))),
                  JObj(With(WireFields("Success", TRUE, <<>>), "status", JStr("success")))}]

\* get_capture_status, from the request to the result.
GetCaptureStatus(outcome) ==
    IF outcome.kind = "send_error"
    THEN Err(ReqwestError("Request", outcome.timedOut))
    ELSE IF IsOkArm(outcome.status)
    THEN OnBody("get_capture_status", outcome.body)
    ELSE OnOtherStatus("get_capture_status", outcome.status)

\* A faulty MatchStatus, for comparison: the Error arm does not break.
MatchStatusErrorGoesOn(status) ==
    CASE status.variant = "Pending" -> "sleep"
      [] status.variant = "Error" -> "sleep"
      [] status.variant = "Success" -> "after"

\* The arms of the loop's match: where main goes on a status.
MatchStatus(status) ==
    CASE status.variant = "Pending" -> "sleep"
      [] status.variant = "Error" -> "after"
      [] status.variant = "Success" -> "after"

\* main has the job id of its capture request and enters the loop.
InitPoll ==
    /\ pc = "loop"
    /\ job \in Jobs
    /\ requests = <<>>
    /\ lastRead = NotYet
    /\ pendingLeft \in 0..MaxPending
    /\ json = Unused /\ decoded = Unused
    /\ params = Unused /\ encoded = Unused
    /\ client = Unused /\ calls = Unused
    /\ args = Unused /\ built = Unused
    /\ twins = Unused /\ stderr = Unused /\ ncalls = Unused

\* client.get_capture_status(&capture_resp.job_id): the request goes out.
LoopGet ==
    /\ pc = "loop"
    /\ requests' = Append(requests, job)
    /\ pc' = "await"
    /\ UNCHANGED <<job, lastRead, pendingLeft, decVars, encVars, cliVars,
                   newVars, logVars>>

\* .await.expect(..), then the match: an Err panics, Pending prints and
\* sleeps, Error and Success print and break.
LoopMatch(outcome) ==
    /\ pc = "await"
    /\ LET result == GetCaptureStatus(outcome)
           pending == IsOk(result) /\ result.value.variant = "Pending"
       IN  /\ pending => pendingLeft > 0
           /\ pendingLeft' = IF pending THEN pendingLeft - 1 ELSE pendingLeft
           /\ lastRead' = result
           /\ pc' = IF IsErr(result) THEN "panicked" ELSE MatchStatus(result.value)
    /\ UNCHANGED <<job, requests, decVars, encVars, cliVars, newVars, logVars>>

\* time::sleep(Duration::from_secs(2)).await is over: the loop goes round.
Wake ==
    /\ pc = "sleep"
    /\ pc' = "loop"
    /\ UNCHANGED <<job, requests, lastRead, pendingLeft, decVars, encVars,
                   cliVars, newVars, logVars>>

NextPoll ==
    \/ LoopGet
    \/ \E outcome \in Outcomes : LoopMatch(outcome)
    \/ Wake

SpecPoll == InitPoll /\ [][NextPoll]_vars

\* The runtime runs main on; the service answers every request.
FairPoll == SpecPoll /\ WF_vars(NextPoll)

Terminal(r) == r # NotYet /\ IsOk(r) /\ r.value.variant \in {"Error", "Success"}
ReadPending(r) == r # NotYet /\ IsOk(r) /\ r.value.variant = "Pending"

\* C10: in the driver's loop every status request is for the job of the
\* capture; a Pending read is followed by the sleep and then by another
\* request; the loop is left at the first Error or Success read, after which
\* no request is sent; and with a service that answers Pending only so many
\* times, main leaves the loop (or panics on a failed call).
C10_PollingLoop ==
    /\ [](\A i \in 1..Len(requests) : requests[i] = job)
    /\ [](Terminal(lastRead) => pc = "after")
    /\ [](pc = "sleep" => ReadPending(lastRead))
    /\ [][Terminal(lastRead) => requests' = requests]_vars
    /\ \A n \in 0..MaxPending :
            (pc = "sleep" /\ Len(requests) = n) ~> (Len(requests) = n + 1)
    /\ <>(pc \in {"after", "panicked"})

\* Two Pending reads, then Success: three requests, and main is past the
\* loop.
C10_Witness ==
    /\ pc = "after"
    /\ Len(requests) = 3
    /\ Terminal(lastRead) /\ lastRead.value.variant = "Success"
====
